---- MODULE Spec2Model ----
(***************************************************************************)
(* RedFlag - Allocation Guardian (src/app.py).                             *)
(*                                                                         *)
(* One run of the analysis (the body of the "Run RedFlag Analysis" button) *)
(* as a state machine: the two linked-lines files are loaded row by row,   *)
(* the linked index is built, the RO file is read and cleaned, every line  *)
(* gets its Product_Group, misallocations and all-out candidates are       *)
(* computed and the report is emitted.                                     *)
(*                                                                         *)
(* Python strings are sequences of one-character strings, so that suffix   *)
(* tests, splitting, replacing and concatenation are computed, not assumed.*)
(* A spreadsheet cell is a record [k, n, s]: k = "na" (empty cell / NaN),  *)
(* k = "num" (a number n) or k = "str" (a text s).                         *)
(***************************************************************************)
EXTENDS Integers, Sequences, FiniteSets, TLC

VARIABLES
    pc,                   \* position of the run in the script
    THRESHOLD,            \* sidebar slider, src/app.py:27
    USA_ALLOUT_THRESHOLD, \* sidebar number input, src/app.py:38
    CDA_ALLOUT_THRESHOLD, \* sidebar number input, src/app.py:45
    file_no,              \* index into linked_files of the file being loaded
    linked_df,            \* rows of the linked file being loaded (or NotFound)
    row_no,               \* number of rows of linked_df already iterated
    current_group,        \* running group counter of the file being loaded
    linked_data_list,     \* rows recorded for the file being loaded
    loaded,               \* per file already merged: its linked_data_list
    product_to_group,     \* dict: identifier -> group id
    group_to_products,    \* dict: group id -> list of identifiers
    linked_groups,        \* dict: retained groups
    working_df,           \* the cleaned RO lines with their derived columns
    allocations,          \* lines with Quantity > 0, merged with the aggregates
    misallocations,       \* allocations with Is_Misallocation
    warehouse_type,       \* "CDA", "USA" or "USA (default)"
    active_threshold,     \* the all-out threshold in force
    unique_skus,          \* working_df after drop_duplicates(subset=['SKU'])
    product_wh_summary,   \* per Product_Group: remainder, allocated, flag
    allout_candidates,    \* the Product_Groups with Should_AllOut
    output                \* what the run has shown to the user, in order

vars == << pc, THRESHOLD, USA_ALLOUT_THRESHOLD, CDA_ALLOUT_THRESHOLD, file_no,
           linked_df, row_no, current_group, linked_data_list, loaded,
           product_to_group, group_to_products, linked_groups, working_df,
           allocations, misallocations, warehouse_type, active_threshold,
           unique_skus, product_wh_summary, allout_candidates, output >>

----------------------------------------------------------------------------
(* Cells                                                                   *)

NA == [k |-> "na", n |-> 0, s |-> << >>]
Num(n) == [k |-> "num", n |-> n, s |-> << >>]
Str(s) == [k |-> "str", n |-> 0, s |-> s]

\* pd.isna(cell)
isna(cell) == cell.k = "na"

----------------------------------------------------------------------------
(* Python string operations                                                *)

Digits == <<"0", "1", "2", "3", "4", "5", "6", "7", "8", "9">>

IsDigitChar(c) == \E d \in 1..10 : Digits[d] = c

DigitValue(c) == (CHOOSE d \in 1..10 : Digits[d] = c) - 1

\* str.endswith(suffix)
endswith(s, suf) ==
    /\ Len(s) >= Len(suf)
    /\ SubSeq(s, Len(s) - Len(suf) + 1, Len(s)) = suf

\* str.startswith(prefix)
startswith(s, pre) ==
    /\ Len(s) >= Len(pre)
    /\ SubSeq(s, 1, Len(pre)) = pre

\* c in s, for a one-character c
contains(s, c) == \E i \in 1..Len(s) : s[i] = c

\* str.isdigit(): non-empty and every character a digit
isdigit(s) == Len(s) > 0 /\ \A i \in 1..Len(s) : IsDigitChar(s[i])

\* s.rsplit(c, 1) for a string s that contains c: split at the last c
rsplit1(s, c) ==
    LET i == CHOOSE j \in 1..Len(s) :
                 s[j] = c /\ \A m \in (j + 1)..Len(s) : s[m] # c
    IN  << SubSeq(s, 1, i - 1), SubSeq(s, i + 1, Len(s)) >>

\* s.replace(old, ''): every non-overlapping occurrence of old, scanning
\* from the left, is removed (one pass)
RECURSIVE remove_all(_, _)
remove_all(s, old) ==
    IF Len(s) = 0 THEN << >>
    ELSE IF startswith(s, old)
         THEN remove_all(SubSeq(s, Len(old) + 1, Len(s)), old)
         ELSE << s[1] >> \o remove_all(Tail(s), old)

\* str.strip() (the whitespace of the model is the blank)
RECURSIVE lstrip(_)
lstrip(s) == IF Len(s) > 0 /\ s[1] = " " THEN lstrip(Tail(s)) ELSE s

RECURSIVE rstrip(_)
rstrip(s) ==
    IF Len(s) > 0 /\ s[Len(s)] = " " THEN rstrip(SubSeq(s, 1, Len(s) - 1)) ELSE s

strip(s) == lstrip(rstrip(s))

\* str(n) for a non-negative integer n
RECURSIVE NatToStr(_)
NatToStr(n) ==
    IF n < 10 THEN << Digits[n + 1] >>
    ELSE NatToStr(n \div 10) \o << Digits[(n % 10) + 1] >>

\* the value of a string of decimal digits
RECURSIVE DigitsToNat(_)
DigitsToNat(s) ==
    IF Len(s) = 0 THEN 0
    ELSE 10 * DigitsToNat(SubSeq(s, 1, Len(s) - 1)) + DigitValue(s[Len(s)])

\* str(cell) for a cell that is not NaN
str(cell) == IF cell.k = "num" THEN NatToStr(cell.n) ELSE cell.s

\* float(cell): [ok |-> FALSE] stands for the ValueError/TypeError raised on
\* a text that is no number.  The numbers of the model are the naturals.
float(cell) ==
    IF cell.k = "num" THEN [ok |-> TRUE, v |-> cell.n]
    ELSE IF cell.k = "str" /\ isdigit(strip(cell.s))
         THEN [ok |-> TRUE, v |-> DigitsToNat(strip(cell.s))]
         ELSE [ok |-> FALSE, v |-> 0]

\* pd.to_numeric(cell, errors='coerce') followed by fillna(0)
to_numeric_fillna0(cell) ==
    IF cell.k = "num" THEN cell.n
    ELSE IF cell.k = "str" /\ isdigit(strip(cell.s)) THEN DigitsToNat(strip(cell.s))
         ELSE 0

----------------------------------------------------------------------------
(* Dictionaries and column sums                                            *)

\* d[k] = v on a dict d
dict_set(d, k, v) == [x \in (DOMAIN d) \cup {k} |-> IF x = k THEN v ELSE d[x]]

\* max(d.values(), default=0)
max_value(d) ==
    IF DOMAIN d = {} THEN 0
    ELSE CHOOSE m \in {d[k] : k \in DOMAIN d} : \A k \in DOMAIN d : d[k] <= m

RECURSIVE SumSeq(_)
SumSeq(q) == IF Len(q) = 0 THEN 0 ELSE q[1] + SumSeq(Tail(q))

\* the rows of df whose positions satisfy keep, in order
RECURSIVE Filter(_, _)
Filter(df, keep) ==
    IF Len(df) = 0 THEN << >>
    ELSE (IF keep[1] THEN << df[1] >> ELSE << >>) \o Filter(Tail(df), Tail(keep))

----------------------------------------------------------------------------
(* Configuration constants                                                 *)

ECOM_DOORS == { <<"8","8","3">>, <<"8","8","6">> }
CLEARANCE_DOORS == { <<"3","0","1","7">>, <<"3","2","2","1">>, <<"7","0","0","3">> }
CDA_STORES == { <<"8","8","3">>, <<"3","9","7","8">>, <<"3","9","9","7">> }
USA_STORES == { <<"8","8","6">>, <<"3","2","1","0">>, <<"3","1","0","8">>,
                <<"3","1","1","3">> }

GroupPrefix == <<"G","r","o","u","p","_">>
DimPrefix == <<"D","i","m","_">>
RevisionSuffix == <<"_","R">>

----------------------------------------------------------------------------
(* STEP 3: grouping logic                                                  *)

\* a dimension test that forgets the lower bound on the segment's length
IsDimensionAnyShort(seg) == isdigit(seg) /\ Len(seg) <= 3

\* the dimension test of get_base_product: parts[1].isdigit() and
\* len(parts[1]) in [2, 3]
IsDimension(seg) == isdigit(seg) /\ Len(seg) \in {2, 3}

get_base_product(prod_ref) ==
    LET b1 == IF endswith(prod_ref, RevisionSuffix)
              THEN SubSeq(prod_ref, 1, Len(prod_ref) - 2)
              ELSE prod_ref
    IN  IF contains(b1, "_")
        THEN LET parts == rsplit1(b1, "_")
             IN  IF IsDimension(parts[2]) THEN parts[1] ELSE b1
        ELSE b1

\* has_dimension = base_product != prod_ref.replace('_R', '')
has_dimension(prod_ref) ==
    get_base_product(prod_ref) # remove_all(prod_ref, RevisionSuffix)

\* prod in product_to_group and product_to_group[prod] in linked_groups
InRetainedGroup(prod) ==
    /\ prod \in DOMAIN product_to_group
    /\ product_to_group[prod] \in DOMAIN linked_groups

GroupKeyOf(prod) == GroupPrefix \o NatToStr(product_to_group[prod])

\* a resolver that groups by dimension before it consults the linked index
get_product_group_dim_first(prod_ref) ==
    LET base_product == get_base_product(prod_ref)
        prod_no_r    == SubSeq(prod_ref, 1, Len(prod_ref) - 2)
    IN  IF has_dimension(prod_ref) THEN DimPrefix \o base_product
        ELSE IF InRetainedGroup(prod_ref) THEN GroupKeyOf(prod_ref)
        ELSE IF endswith(prod_ref, RevisionSuffix) /\ InRetainedGroup(prod_no_r)
             THEN GroupKeyOf(prod_no_r)
        ELSE IF base_product # prod_ref /\ InRetainedGroup(base_product)
             THEN GroupKeyOf(base_product)
        ELSE prod_ref

get_product_group(prod_ref) ==
    LET base_product == get_base_product(prod_ref)
        prod_no_r    == SubSeq(prod_ref, 1, Len(prod_ref) - 2)
    IN  IF InRetainedGroup(prod_ref) THEN GroupKeyOf(prod_ref)
        ELSE IF endswith(prod_ref, RevisionSuffix) /\ InRetainedGroup(prod_no_r)
             THEN GroupKeyOf(prod_no_r)
        ELSE IF base_product # prod_ref /\ InRetainedGroup(base_product)
             THEN GroupKeyOf(base_product)
        ELSE IF has_dimension(prod_ref) THEN DimPrefix \o base_product
        ELSE prod_ref

----------------------------------------------------------------------------
(* STEP 1: linked lines                                                    *)

\* linked_files, src/app.py:85
NumLinkedFiles == 2

\* what one iteration of the row loop does to (current_group,
\* linked_data_list): a row without identifier or order indicator, or with an
\* order indicator float() rejects, is passed over
RowContributes(row) ==
    /\ ~isna(row.product_ref)
    /\ ~isna(row.order_in)
    /\ float(row.order_in).ok

\* a counter that is advanced on every contributing row
GroupAfterEveryRow(row, cg) == cg + 1

\* if order_val == 1: current_group += 1
GroupAfter(row, cg) == IF float(row.order_in).v = 1 THEN cg + 1 ELSE cg

\* the ProdReference values of the rows of data that carry group g
ProductsOf(data, g) ==
    LET keep == [i \in 1..Len(data) |-> data[i].Group = g]
        rows == Filter(data, keep)
    IN  [i \in 1..Len(rows) |-> rows[i].ProdReference]

\* for prod_ref, group in zip(...): product_to_group[prod_ref] = group
RECURSIVE AddProducts(_, _)
AddProducts(ptg, data) ==
    IF Len(data) = 0 THEN ptg
    ELSE AddProducts(dict_set(ptg, data[1].ProdReference, data[1].Group), Tail(data))

\* for group in unique(): group_to_products[group].extend(products)
AddGroups(gtp, data) ==
    LET groups == {data[i].Group : i \in 1..Len(data)}
    IN  [g \in (DOMAIN gtp) \cup groups |->
            (IF g \in DOMAIN gtp THEN gtp[g] ELSE << >>)
            \o (IF g \in groups THEN ProductsOf(data, g) ELSE << >>)]

\* len(v) > 1
Retained(products) == Len(products) > 1

\* current_group = max(product_to_group.values(), default=0)
StartGroup == max_value(product_to_group)

AfterFile == IF file_no = NumLinkedFiles THEN "build" ELSE "open"

\* pd.read_excel(file_path, sheet_name='Linked'), and the set-up of the loop;
\* a file that is not found is skipped with a warning
OpenLinkedFile(f) ==
    /\ pc = "open"
    /\ IF f.found
       THEN /\ linked_df' = f.rows
            /\ current_group' = StartGroup
            /\ pc' = "rows"
            /\ UNCHANGED << file_no, loaded, output >>
       ELSE /\ output' = Append(output, "warning")
            /\ loaded' = Append(loaded, << >>)
            /\ file_no' = file_no + 1
            /\ pc' = AfterFile
            /\ UNCHANGED << linked_df, current_group >>
    /\ row_no' = 0
    /\ linked_data_list' = << >>
    /\ UNCHANGED << THRESHOLD, USA_ALLOUT_THRESHOLD, CDA_ALLOUT_THRESHOLD,
                    product_to_group, group_to_products, linked_groups,
                    working_df, allocations, misallocations, warehouse_type,
                    active_threshold, unique_skus, product_wh_summary,
                    allout_candidates >>

\* one iteration of: for idx, row in linked_df.iterrows()
LinkedRow ==
    /\ pc = "rows"
    /\ row_no < Len(linked_df)
    /\ LET row == linked_df[row_no + 1]
       IN  IF RowContributes(row)
           THEN /\ current_group' = GroupAfter(row, current_group)
                /\ linked_data_list' =
                       Append(linked_data_list,
                              [Group |-> GroupAfter(row, current_group),
                               ProdReference |-> strip(str(row.product_ref))])
           ELSE UNCHANGED << current_group, linked_data_list >>
    /\ row_no' = row_no + 1
    /\ UNCHANGED << pc, THRESHOLD, USA_ALLOUT_THRESHOLD, CDA_ALLOUT_THRESHOLD,
                    file_no, linked_df, loaded, product_to_group,
                    group_to_products, linked_groups, working_df, allocations,
                    misallocations, warehouse_type, active_threshold,
                    unique_skus, product_wh_summary, allout_candidates, output >>

\* after the loop: the file's rows are added to the two dictionaries
MergeLinkedFile ==
    /\ pc = "rows"
    /\ row_no = Len(linked_df)
    /\ product_to_group' = AddProducts(product_to_group, linked_data_list)
    /\ group_to_products' = AddGroups(group_to_products, linked_data_list)
    /\ loaded' = Append(loaded, linked_data_list)
    /\ file_no' = file_no + 1
    /\ pc' = AfterFile
    /\ linked_df' = << >>
    /\ row_no' = 0
    /\ linked_data_list' = << >>
    /\ current_group' = 0
    /\ UNCHANGED << THRESHOLD, USA_ALLOUT_THRESHOLD, CDA_ALLOUT_THRESHOLD,
                    linked_groups, working_df, allocations, misallocations,
                    warehouse_type, active_threshold, unique_skus,
                    product_wh_summary, allout_candidates, output >>

\* linked_groups = {k: v for k, v in group_to_products.items() if len(v) > 1}
BuildLinkedGroups ==
    /\ pc = "build"
    /\ linked_groups' =
           [g \in {k \in DOMAIN group_to_products : Retained(group_to_products[k])}
               |-> group_to_products[g]]
    /\ pc' = "ro"
    /\ UNCHANGED << THRESHOLD, USA_ALLOUT_THRESHOLD, CDA_ALLOUT_THRESHOLD,
                    file_no, linked_df, row_no, current_group, linked_data_list,
                    loaded, product_to_group, group_to_products, working_df,
                    allocations, misallocations, warehouse_type,
                    active_threshold, unique_skus, product_wh_summary,
                    allout_candidates, output >>

----------------------------------------------------------------------------
(* STEP 2: the RO file                                                     *)

\* Series.astype(str) on one cell
astype_str(cell) == IF isna(cell) THEN <<"n","a","n">> ELSE str(cell)

\* the working columns of one RO row after "Clean the data"; line is the
\* row's position in the file, the derived columns are filled in by STEP 3
CleanRow(r, i) ==
    [line          |-> i,
     Store_Code    |-> astype_str(r.Store_Code),
     ProdReference |-> r.ProdReference,
     Size          |-> r.Size,
     Store_Stock   |-> to_numeric_fillna0(r.Store_Stock),
     Quantity      |-> to_numeric_fillna0(r.Quantity),
     Quantity_28   |-> to_numeric_fillna0(r.Quantity_28),
     Wh_Stock      |-> to_numeric_fillna0(r.Wh_Stock),
     Base_Product  |-> << >>,
     Product_Group |-> << >>,
     SKU           |-> << >>]

\* the outer "except Exception": one error message, the run is over
RaiseError ==
    /\ pc' = "error"
    /\ output' = Append(output, "error")

\* df = pd.read_excel(ro_file), the column selection and the cleaning; an
\* unreadable file, or a sheet without the columns, raises
ProcessRO(f) ==
    /\ pc = "ro"
    /\ IF f.readable /\ f.has_columns
       THEN /\ working_df' = [i \in 1..Len(f.rows) |-> CleanRow(f.rows[i], i)]
            /\ output' = Append(output, "metrics")
            /\ pc' = "group"
       ELSE /\ RaiseError
            /\ UNCHANGED working_df
    /\ UNCHANGED << THRESHOLD, USA_ALLOUT_THRESHOLD, CDA_ALLOUT_THRESHOLD,
                    file_no, linked_df, row_no, current_group, linked_data_list,
                    loaded, product_to_group, group_to_products, linked_groups,
                    allocations, misallocations, warehouse_type,
                    active_threshold, unique_skus, product_wh_summary,
                    allout_candidates >>

----------------------------------------------------------------------------
(* STEP 3: the derived columns                                             *)

\* working_df['SKU'] = working_df['ProdReference'] + '_' + Size.astype(str)
SKUOf(prod_ref, size) == prod_ref \o <<"_">> \o astype_str(size)

\* str.startswith(('Group_', 'Dim_')) on the Product_Group column
IsGrouped(pg) == startswith(pg, GroupPrefix) \/ startswith(pg, DimPrefix)

\* get_base_product / get_product_group are applied to every ProdReference;
\* on a cell that is no text, prod_ref.endswith raises AttributeError
ApplyGrouping ==
    /\ pc = "group"
    /\ IF \A i \in 1..Len(working_df) : working_df[i].ProdReference.k = "str"
       THEN /\ working_df' =
                 [i \in 1..Len(working_df) |->
                     [working_df[i] EXCEPT
                        !.Base_Product = get_base_product(working_df[i].ProdReference.s),
                        !.Product_Group = get_product_group(working_df[i].ProdReference.s),
                        !.SKU = SKUOf(working_df[i].ProdReference.s, working_df[i].Size)]]
            /\ output' =
                 IF \E i \in 1..Len(working_df) :
                        IsGrouped(get_product_group(working_df[i].ProdReference.s))
                 THEN Append(output, "info")
                 ELSE output
            /\ pc' = "detect"
       ELSE /\ RaiseError
            /\ UNCHANGED working_df
    /\ UNCHANGED << THRESHOLD, USA_ALLOUT_THRESHOLD, CDA_ALLOUT_THRESHOLD,
                    file_no, linked_df, row_no, current_group, linked_data_list,
                    loaded, product_to_group, group_to_products, linked_groups,
                    allocations, misallocations, warehouse_type,
                    active_threshold, unique_skus, product_wh_summary,
                    allout_candidates >>

----------------------------------------------------------------------------
(* STEP 4: misallocations                                                  *)

\* working_df.groupby(['Store_Code', 'Product_Group'])['Store_Stock'].sum(),
\* looked up at one key as the left merge does
Total_Store_Stock(df, store, pg) ==
    SumSeq([i \in 1..Len(df) |->
              IF df[i].Store_Code = store /\ df[i].Product_Group = pg
              THEN df[i].Store_Stock ELSE 0])

\* working_df.groupby(['Store_Code', 'Product_Group'])['Quantity_28'].sum()
Total_Sales_28(df, store, pg) ==
    SumSeq([i \in 1..Len(df) |->
              IF df[i].Store_Code = store /\ df[i].Product_Group = pg
              THEN df[i].Quantity_28 ELSE 0])

\* a flag that also fires when the metric equals the threshold
Is_MisallocationInclusive(combined) == combined <= THRESHOLD

\* allocations['Combined_Metric'] < THRESHOLD
Is_Misallocation(combined) == combined < THRESHOLD

\* the columns STEP 4 adds to one line of allocations
AllocationRow(df, r) ==
    LET stock == Total_Store_Stock(df, r.Store_Code, r.Product_Group)
        sales == Total_Sales_28(df, r.Store_Code, r.Product_Group)
    IN  [line                 |-> r.line,
         Store_Code           |-> r.Store_Code,
         ProdReference        |-> r.ProdReference,
         Product_Group        |-> r.Product_Group,
         Quantity             |-> r.Quantity,
         Total_Store_Stock    |-> stock,
         Total_Sales_28       |-> sales,
         Combined_Metric      |-> stock + sales,
         Is_Misallocation     |-> Is_Misallocation(stock + sales),
         Is_Linked            |-> startswith(r.Product_Group, GroupPrefix),
         Is_Dimension_Grouped |-> startswith(r.Product_Group, DimPrefix),
         Is_ECOM              |-> r.Store_Code \in ECOM_DOORS,
         Is_Clearance         |-> r.Store_Code \in CLEARANCE_DOORS]

DetectMisallocations ==
    /\ pc = "detect"
    /\ LET alloc  == Filter(working_df,
                            [i \in 1..Len(working_df) |-> working_df[i].Quantity > 0])
           merged == [i \in 1..Len(alloc) |-> AllocationRow(working_df, alloc[i])]
       IN  /\ allocations' = merged
           /\ misallocations' =
                  Filter(merged, [i \in 1..Len(merged) |-> merged[i].Is_Misallocation])
    /\ pc' = "allout"
    /\ UNCHANGED << THRESHOLD, USA_ALLOUT_THRESHOLD, CDA_ALLOUT_THRESHOLD,
                    file_no, linked_df, row_no, current_group, linked_data_list,
                    loaded, product_to_group, group_to_products, linked_groups,
                    working_df, warehouse_type, active_threshold, unique_skus,
                    product_wh_summary, allout_candidates, output >>

----------------------------------------------------------------------------
(* STEP 4.5: warehouse source and all-out candidates                       *)

\* working_df['Store_Code'].unique()
StoresInFile(df) == {df[i].Store_Code : i \in 1..Len(df)}

is_cda(df) == \E store \in StoresInFile(df) : store \in CDA_STORES

is_usa(df) == \E store \in StoresInFile(df) : store \in USA_STORES

\* a detection that treats a mixed file as CDA
WarehouseTypeCdaWins(df) ==
    IF is_cda(df) THEN "CDA"
    ELSE IF is_usa(df) THEN "USA"
    ELSE "USA (default)"

WarehouseType(df) ==
    IF is_cda(df) /\ ~is_usa(df) THEN "CDA"
    ELSE IF is_usa(df) /\ ~is_cda(df) THEN "USA"
    ELSE "USA (default)"

ActiveThreshold(df) ==
    IF is_cda(df) /\ ~is_usa(df) THEN CDA_ALLOUT_THRESHOLD
    ELSE USA_ALLOUT_THRESHOLD

\* a de-duplication that keeps every row
DropDuplicateSKUsKeepAll(df) == df

\* working_df[...].drop_duplicates(subset=['SKU']): the first row of every SKU
DropDuplicateSKUs(df) ==
    Filter(df, [i \in 1..Len(df) |-> \A j \in 1..(i - 1) : df[j].SKU # df[i].SKU])

\* unique_skus.groupby('Product_Group').agg({'Wh_Stock': 'sum'}) at one group
Warehouse_Remaining(skus, pg) ==
    SumSeq([i \in 1..Len(skus) |->
              IF skus[i].Product_Group = pg THEN skus[i].Wh_Stock ELSE 0])

\* working_df.groupby('Product_Group').agg({'Quantity': 'sum'}) at one group
Total_Allocated(df, pg) ==
    SumSeq([i \in 1..Len(df) |->
              IF df[i].Product_Group = pg THEN df[i].Quantity ELSE 0])

\* a flag that accepts an empty warehouse
Should_AllOutFromZero(remaining, threshold) ==
    remaining >= 0 /\ remaining < threshold

\* (Warehouse_Remaining > 0) & (Warehouse_Remaining < active_threshold)
Should_AllOut(remaining, threshold) == remaining > 0 /\ remaining < threshold

AllOutCandidates ==
    /\ pc = "allout"
    /\ LET skus    == DropDuplicateSKUs(working_df)
           groups  == {skus[i].Product_Group : i \in 1..Len(skus)}
           summary == [pg \in groups |->
                         [Warehouse_Remaining |-> Warehouse_Remaining(skus, pg),
                          Total_Allocated     |-> Total_Allocated(working_df, pg),
                          Should_AllOut       |->
                              Should_AllOut(Warehouse_Remaining(skus, pg),
                                            ActiveThreshold(working_df))]]
       IN  /\ unique_skus' = skus
           /\ product_wh_summary' = summary
           /\ allout_candidates' = {pg \in groups : summary[pg].Should_AllOut}
    /\ warehouse_type' = WarehouseType(working_df)
    /\ active_threshold' = ActiveThreshold(working_df)
    /\ pc' = "report"
    /\ UNCHANGED << THRESHOLD, USA_ALLOUT_THRESHOLD, CDA_ALLOUT_THRESHOLD,
                    file_no, linked_df, row_no, current_group, linked_data_list,
                    loaded, product_to_group, group_to_products, linked_groups,
                    working_df, allocations, misallocations, output >>

----------------------------------------------------------------------------
(* STEP 5 and STEP 6: the report                                           *)

\* float(prod_group.replace('Group_', '')) succeeds on every flagged line
\* whose Product_Group starts with 'Group_'
GroupNumbersParse ==
    \A i \in 1..Len(misallocations) :
        startswith(misallocations[i].Product_Group, GroupPrefix)
            => float(Str(remove_all(misallocations[i].Product_Group, GroupPrefix))).ok

DisplayResults ==
    /\ pc = "report"
    /\ IF Len(misallocations) > 0 /\ ~GroupNumbersParse
       THEN /\ pc' = "error"
            /\ output' = output \o <<"red_flags", "error">>
       ELSE /\ pc' = "done"
            /\ output' = output
                  \o << IF Len(misallocations) > 0 THEN "red_flags" ELSE "all_clear" >>
                  \o << IF allout_candidates # {} THEN "all_out" ELSE "efficient" >>
    /\ UNCHANGED << THRESHOLD, USA_ALLOUT_THRESHOLD, CDA_ALLOUT_THRESHOLD,
                    file_no, linked_df, row_no, current_group, linked_data_list,
                    loaded, product_to_group, group_to_products, linked_groups,
                    working_df, allocations, misallocations, warehouse_type,
                    active_threshold, unique_skus, product_wh_summary,
                    allout_candidates >>

----------------------------------------------------------------------------
(* The run                                                                 *)

\* the state when the button is pressed, with the sidebar settings drawn
\* from the given sets
InitWith(Ts, Us, Cs) ==
    /\ pc = "open"
    /\ THRESHOLD \in Ts
    /\ USA_ALLOUT_THRESHOLD \in Us
    /\ CDA_ALLOUT_THRESHOLD \in Cs
    /\ file_no = 1
    /\ linked_df = << >>
    /\ row_no = 0
    /\ current_group = 0
    /\ linked_data_list = << >>
    /\ loaded = << >>
    /\ product_to_group = << >>
    /\ group_to_products = << >>
    /\ linked_groups = << >>
    /\ working_df = << >>
    /\ allocations = << >>
    /\ misallocations = << >>
    /\ warehouse_type = ""
    /\ active_threshold = 0
    /\ unique_skus = << >>
    /\ product_wh_summary = << >>
    /\ allout_candidates = {}
    /\ output = << >>

\* the steps of the run; LinkedFiles[i] is the set the i-th linked file is
\* drawn from, ROFiles the set the RO file is drawn from
Run(LinkedFiles, ROFiles) ==
    \/ pc = "open" /\ \E f \in LinkedFiles[file_no] : OpenLinkedFile(f)
    \/ LinkedRow
    \/ MergeLinkedFile
    \/ BuildLinkedGroups
    \/ pc = "ro" /\ \E f \in ROFiles : ProcessRO(f)
    \/ ApplyGrouping
    \/ DetectMisallocations
    \/ AllOutCandidates
    \/ DisplayResults

----------------------------------------------------------------------------
(* Inputs                                                                  *)

\* all sequences of length at most n over the set S
SeqsUpTo(S, n) == UNION {[1..m -> S] : m \in 0..n}

LinkedFile(rows) == [found |-> TRUE, rows |-> rows]
MissingLinkedFile == [found |-> FALSE, rows |-> << >>]
LinkedRowOf(ref, ord) == [product_ref |-> ref, order_in |-> ord]

ROFile(rows) == [readable |-> TRUE, has_columns |-> TRUE, rows |-> rows]
RORow(store, ref, size, stock, qty, sales, wh) ==
    [Store_Code |-> store, ProdReference |-> ref, Size |-> size,
     Store_Stock |-> stock, Quantity |-> qty, Quantity_28 |-> sales,
     Wh_Stock |-> wh]

\* default values of the sidebar inputs
DefaultThreshold == 4
DefaultUsaThreshold == 40
DefaultCdaThreshold == 30

\* identifiers, sizes and store codes used in the allocation lines
A_30 == <<"A","_","3","0">>
A_32 == <<"A","_","3","2">>
IdB == <<"B">>
SizeS == <<"S">>
SizeM == <<"M">>
Store100 == <<"1","0","0">>
Store883 == <<"8","8","3">>
Store886 == <<"8","8","6">>
Store3978 == <<"3","9","7","8">>

\* a linked file that puts B and A_30 into one group; two of its rows are
\* passed over
LinkedB_A30 == LinkedFile(<< LinkedRowOf(Str(IdB), Num(1)),
                            LinkedRowOf(Str(A_30), Num(2)),
                            LinkedRowOf(NA, Num(1)),
                            LinkedRowOf(Str(A_32), Str(<<"x">>)) >>)

----------------------------------------------------------------------------
(* Spec: misallocation detection over small allocation files               *)

\* most lines of an allocation file
MaxRORows == 2

ThresholdVals == {1, 4, 5}

\* lines that ship have no recent sales, lines that do not ship have one
MisRows ==
    { RORow(Str(k[1]), Str(k[2]), Str(SizeS), Num(stock), Num(m[1]), Num(m[2]), Num(0)) :
        k \in { <<Store100, A_30>>, <<Store100, A_32>>, <<Store100, IdB>>,
                <<Store883, A_30>> },
        stock \in {0, 1, 2}, m \in { <<1, 0>>, <<0, 1>> } }

\* Scenario B of the specification: stock 1 and 2, sales 0 and 1
ScenarioB ==
    ROFile(<< RORow(Str(Store100), Str(A_30), Str(SizeS), Num(1), Num(1), Num(0), Num(0)),
              RORow(Str(Store100), Str(A_32), Str(SizeS), Num(2), Num(0), Num(1), Num(0)) >>)

MisROFiles == {ROFile(rows) : rows \in SeqsUpTo(MisRows, MaxRORows) \ {<< >>}}
                  \cup {ScenarioB}

MisLinkedFiles == << {MissingLinkedFile, LinkedB_A30}, {MissingLinkedFile} >>

Init == InitWith(ThresholdVals, {DefaultUsaThreshold}, {DefaultCdaThreshold})

Next == Run(MisLinkedFiles, MisROFiles)

Spec == Init /\ [][Next]_vars

----------------------------------------------------------------------------
(* Properties of misallocation detection (specification Spec)             *)

RECURSIVE SumOverSet(_, _)
SumOverSet(S, f) ==
    IF S = {} THEN 0
    ELSE LET x == CHOOSE y \in S : TRUE
         IN  f[x] + SumOverSet(S \ {x}, f)

\* STEP 4 has run
Detected == pc \in {"allout", "report", "done"}

\* the lines of the run with the store code and the group of line i,
\* whatever their quantity
SameStoreAndGroup(i) ==
    {j \in 1..Len(working_df) :
        /\ working_df[j].Store_Code = working_df[i].Store_Code
        /\ working_df[j].Product_Group = working_df[i].Product_Group}

\* on-hand stock plus 28-day sales, summed over those lines
CombinedOverAllLines(i) ==
    SumOverSet(SameStoreAndGroup(i),
               [j \in 1..Len(working_df) |->
                   working_df[j].Store_Stock + working_df[j].Quantity_28])

\* line i is among the misallocations
IsFlagged(i) == \E k \in 1..Len(misallocations) : misallocations[k].line = i

\* C1: a line is flagged as a misallocation if and only if its quantity to
\* ship is positive and the stock plus 28-day sales, summed over all lines of
\* its store and group (lines with quantity 0 included), is below the
\* threshold; a metric equal to the threshold is not flagged and a line with
\* quantity 0 never is.
C1_FlaggedIffBelowThreshold ==
    Detected =>
        \A i \in 1..Len(working_df) :
            IsFlagged(i) <=> /\ working_df[i].Quantity > 0
                             /\ CombinedOverAllLines(i) < THRESHOLD

\* a shipping line is flagged, its metric one below the threshold, and a
\* line of its store and group that ships nothing brings part of that metric
C1_Witness ==
    /\ pc = "done"
    /\ \E i, j \in 1..Len(working_df) :
          /\ IsFlagged(i)
          /\ CombinedOverAllLines(i) = THRESHOLD - 1
          /\ j \in SameStoreAndGroup(i)
          /\ working_df[j].Quantity = 0
          /\ working_df[j].Store_Stock + working_df[j].Quantity_28 > 0

----------------------------------------------------------------------------
(* SpecWh: warehouse source and all-out flag over small allocation files   *)

\* most lines of an allocation file in SpecWh
MaxWhRows == 2

UsaThresholdVals == {0, 2, 3}
CdaThresholdVals == {1, 2}

WhRows ==
    { RORow(Str(st), Str(id), Str(SizeS), Num(0), Num(1), Num(0), Num(wh)) :
        st \in {Store100, Store883, Store886}, id \in {A_30, IdB},
        wh \in {0, 1, 2} }

\* Scenario D of the specification: the stores 883 and 3978
ScenarioD ==
    ROFile(<< RORow(Str(Store883), Str(A_30), Str(SizeS), Num(0), Num(1), Num(0), Num(1)),
              RORow(Num(3978), Str(IdB), Str(SizeS), Num(0), Num(1), Num(0), Num(1)) >>)

WhROFiles == {ROFile(rows) : rows \in SeqsUpTo(WhRows, MaxWhRows) \ {<< >>}}
                 \cup {ScenarioD}

WhLinkedFiles == << {MissingLinkedFile, LinkedB_A30}, {MissingLinkedFile} >>

InitWh == InitWith({DefaultThreshold}, UsaThresholdVals, CdaThresholdVals)

NextWh == Run(WhLinkedFiles, WhROFiles)

SpecWh == InitWh /\ [][NextWh]_vars

----------------------------------------------------------------------------
(* Properties of the all-out step (specifications SpecWh, SpecAllOut)       *)

\* STEP 4.5 has run
AllOutDone == pc \in {"report", "done"}

\* the groups of the run
GroupsOfRun == {working_df[i].Product_Group : i \in 1..Len(working_df)}

\* the lines that are the first of the run with their (identifier, size)
FirstOfSKU(i) ==
    \A j \in 1..(i - 1) :
        \/ working_df[j].ProdReference # working_df[i].ProdReference
        \/ working_df[j].Size # working_df[i].Size

\* the warehouse remainder of group g with every (identifier, size) counted
\* once, at its first line
DedupRemainder(g) ==
    SumOverSet({i \in 1..Len(working_df) :
                    working_df[i].Product_Group = g /\ FirstOfSKU(i)},
               [i \in 1..Len(working_df) |-> working_df[i].Wh_Stock])

\* the configured threshold of the detected warehouse source
ThresholdOfDetectedSource ==
    IF warehouse_type = "CDA" THEN CDA_ALLOUT_THRESHOLD ELSE USA_ALLOUT_THRESHOLD

\* C2: a group is an all-out candidate if and only if its deduplicated
\* warehouse remainder is strictly positive and strictly below the threshold
\* of the detected warehouse source; a remainder of 0, or one equal to the
\* threshold, is no candidate.
C2_CandidateIffBetween ==
    AllOutDone =>
        \A g \in GroupsOfRun :
            g \in allout_candidates <=>
                /\ 0 < DedupRemainder(g)
                /\ DedupRemainder(g) < ThresholdOfDetectedSource

\* a run with a candidate and with a group whose remainder equals the
\* threshold in force and is no candidate
C2_Witness ==
    /\ pc = "done"
    /\ allout_candidates # {}
    /\ \E g \in GroupsOfRun : /\ DedupRemainder(g) = ThresholdOfDetectedSource
                              /\ g \notin allout_candidates

StoresOfRun == {working_df[i].Store_Code : i \in 1..Len(working_df)}

\* C10: the warehouse source is CDA when a CDA store and no USA store is
\* present, USA when a USA store and no CDA store is present, and otherwise
\* USA with the "default" annotation; the threshold in force is the
\* configured threshold of that source.  The stores 883 and 3978 select the
\* CDA threshold.
C10_WarehouseSource ==
    AllOutDone =>
        LET cda == StoresOfRun \cap CDA_STORES # {}
            usa == StoresOfRun \cap USA_STORES # {}
        IN  /\ (cda /\ ~usa) =>
                  /\ warehouse_type = "CDA"
                  /\ active_threshold = CDA_ALLOUT_THRESHOLD
            /\ (usa /\ ~cda) =>
                  /\ warehouse_type = "USA"
                  /\ active_threshold = USA_ALLOUT_THRESHOLD
            /\ (cda <=> usa) =>
                  /\ warehouse_type = "USA (default)"
                  /\ active_threshold = USA_ALLOUT_THRESHOLD
            /\ StoresOfRun = {Store883, Store3978} =>
                  active_threshold = CDA_ALLOUT_THRESHOLD

\* the run of Scenario D, with thresholds that differ
C10_Witness ==
    /\ pc = "done"
    /\ StoresOfRun = {Store883, Store3978}
    /\ warehouse_type = "CDA"
    /\ CDA_ALLOUT_THRESHOLD # USA_ALLOUT_THRESHOLD

----------------------------------------------------------------------------
(* SpecAllOut: warehouse aggregation over files with repeated SKUs         *)

\* most lines of an allocation file in SpecAllOut
MaxAllOutRows == 2

AllOutRows ==
    { RORow(Str(Store100), Str(id), Str(size), Num(0), Num(qty), Num(0), Num(wh)) :
        id \in {A_30, A_32, IdB}, size \in {SizeS, SizeM},
        qty \in {0, 1}, wh \in {1, 2} }

AllOutROFiles == {ROFile(rows) : rows \in SeqsUpTo(AllOutRows, MaxAllOutRows) \ {<< >>}}

AllOutLinkedFiles == << {MissingLinkedFile, LinkedB_A30}, {MissingLinkedFile} >>

InitAllOut ==
    InitWith({DefaultThreshold}, {DefaultUsaThreshold}, {DefaultCdaThreshold})

NextAllOut == Run(AllOutLinkedFiles, AllOutROFiles)

SpecAllOut == InitAllOut /\ [][NextAllOut]_vars

\* the quantity to ship summed over every line of group g
AllocatedOverAllLines(g) ==
    SumOverSet({i \in 1..Len(working_df) : working_df[i].Product_Group = g},
               [i \in 1..Len(working_df) |-> working_df[i].Quantity])

\* C9: the warehouse remainder of a group counts every (identifier, size)
\* once, with the remainder of its first row, also when later rows of that
\* SKU carry other remainders; the total allocated quantity of the group is
\* the sum of the quantity to ship over all its lines, without
\* de-duplication.
C9_RemainderOncePerSKU ==
    AllOutDone =>
        \A g \in GroupsOfRun :
            /\ g \in DOMAIN product_wh_summary
            /\ product_wh_summary[g].Warehouse_Remaining = DedupRemainder(g)
            /\ product_wh_summary[g].Total_Allocated = AllocatedOverAllLines(g)

\* a run in which one SKU appears in two rows with different remainders,
\* both rows shipping
C9_Witness ==
    /\ pc = "done"
    /\ \E i, j \in 1..Len(working_df) :
          /\ i < j
          /\ working_df[i].ProdReference = working_df[j].ProdReference
          /\ working_df[i].Size = working_df[j].Size
          /\ working_df[i].Wh_Stock # working_df[j].Wh_Stock
          /\ working_df[i].Quantity > 0
          /\ working_df[j].Quantity > 0
          /\ product_wh_summary[working_df[i].Product_Group].Warehouse_Remaining
                 = working_df[i].Wh_Stock
          /\ product_wh_summary[working_df[i].Product_Group].Total_Allocated
                 = working_df[i].Quantity + working_df[j].Quantity

----------------------------------------------------------------------------
(* SpecResolve: the grouping of one identifier drawn from all short strings *)

\* longest identifier drawn from the alphabet
MaxIdLen == 5

IdAlphabet == {"A", "_", "R", "1"}

ABC123_30 == <<"A","B","C","1","2","3","_","3","0">>
A_11_R == <<"A","_","1","1","_","R">>
A_1111 == <<"A","_","1","1","1","1">>
IdA == <<"A">>
A_R == <<"A","_","R">>
A_11 == <<"A","_","1","1">>
A1 == <<"A","1">>

Identifiers ==
    (SeqsUpTo(IdAlphabet, MaxIdLen) \ {<< >>}) \cup {ABC123_30, A_11_R, A_1111}

ResolveROFiles ==
    { ROFile(<< RORow(Str(Store100), Str(x), Str(SizeS), Num(0), Num(1), Num(0), Num(1)) >>) :
        x \in Identifiers }

\* A_R and A_11 in one group, A and A1 in the next
LinkedTwoGroups == LinkedFile(<< LinkedRowOf(Str(A_R), Num(1)),
                                LinkedRowOf(Str(A_11), Num(2)),
                                LinkedRowOf(Str(IdA), Num(1)),
                                LinkedRowOf(Str(A1), Num(2)) >>)

\* A alone in a group, A_R and A_11 in the next
LinkedSingleton == LinkedFile(<< LinkedRowOf(Str(IdA), Num(1)),
                                LinkedRowOf(Str(A_R), Num(1)),
                                LinkedRowOf(Str(A_11), Num(2)) >>)

ResolveLinkedFiles == << {MissingLinkedFile, LinkedTwoGroups, LinkedSingleton},
                         {MissingLinkedFile, LinkedSingleton} >>

InitResolve ==
    InitWith({DefaultThreshold}, {DefaultUsaThreshold}, {DefaultCdaThreshold})

NextResolve == Run(ResolveLinkedFiles, ResolveROFiles)

SpecResolve == InitResolve /\ [][NextResolve]_vars

----------------------------------------------------------------------------
(* Properties of grouping (specification SpecResolve)                      *)

\* STEP 3 has run
Grouped == pc \in {"detect", "allout", "report", "done"}

\* x without one trailing "_R"
WithoutRevision(x) ==
    IF Len(x) >= 2 /\ x[Len(x) - 1] = "_" /\ x[Len(x)] = "R"
    THEN SubSeq(x, 1, Len(x) - 2)
    ELSE x

\* position i of y holds a separator and what follows it is a dimension
\* code: two or three characters, all digits
DimensionAt(y, i) ==
    /\ y[i] = "_"
    /\ Len(y) - i \in {2, 3}
    /\ \A m \in (i + 1)..Len(y) : IsDigitChar(y[m])

\* normalisation strips a dimension segment from x
DimensionStripped(x) ==
    \E i \in 1..Len(WithoutRevision(x)) : DimensionAt(WithoutRevision(x), i)

\* the final "_"-separated segment of x, for an x with a separator
FinalSegment(x) ==
    LET i == CHOOSE j \in 1..Len(x) :
                 x[j] = "_" /\ \A m \in (j + 1)..Len(x) : x[m] # "_"
    IN  SubSeq(x, i + 1, Len(x))

\* p is in the linked index and its group is retained
InIndexRetained(p) ==
    /\ p \in DOMAIN product_to_group
    /\ product_to_group[p] \in DOMAIN linked_groups

LinkedKey(p) == GroupPrefix \o NatToStr(product_to_group[p])

Rule1(x) == InIndexRetained(x)
Rule2(x) == /\ Len(x) >= 2
            /\ SubSeq(x, Len(x) - 1, Len(x)) = RevisionSuffix
            /\ InIndexRetained(SubSeq(x, 1, Len(x) - 2))
Rule3(x, base) == InIndexRetained(base)

\* C5: get_base_product removes one trailing "_R" if present, and then the
\* final "_"-separated segment with its separator exactly when that segment
\* is all digits and two or three characters long; "ABC123_30" yields
\* "ABC123" and, with no linked source, the group Dim_ABC123.
C5_BaseProduct ==
    Grouped =>
        \A k \in 1..Len(working_df) :
            LET x == working_df[k].ProdReference.s
                y == WithoutRevision(x)
                b == working_df[k].Base_Product
            IN  /\ \A i \in 1..Len(y) : DimensionAt(y, i) => b = SubSeq(y, 1, i - 1)
                /\ ~DimensionStripped(x) => b = y
                /\ x = ABC123_30 =>
                      /\ b = <<"A","B","C","1","2","3">>
                      /\ product_to_group = << >> =>
                            working_df[k].Product_Group
                                = <<"D","i","m","_","A","B","C","1","2","3">>

\* Scenario A: "ABC123_30" with no linked source
C5_Witness ==
    /\ pc = "done"
    /\ product_to_group = << >>
    /\ working_df[1].ProdReference.s = ABC123_30
    /\ working_df[1].Base_Product = <<"A","B","C","1","2","3">>
    /\ working_df[1].Product_Group = <<"D","i","m","_","A","B","C","1","2","3">>

\* C3: the first of the rules (1) identifier in the index with a retained
\* group, (2) identifier without its "_R" suffix in the index with a retained
\* group, (3) normalised base in the index with a retained group, that
\* applies decides the Linked key, also for an identifier with a dimension
\* suffix; without any of them the key is a Dimension or a Self key.
C3_FirstMatchWins ==
    Grouped =>
        \A k \in 1..Len(working_df) :
            LET x    == working_df[k].ProdReference.s
                base == working_df[k].Base_Product
                pg   == working_df[k].Product_Group
            IN  /\ Rule1(x) => pg = LinkedKey(x)
                /\ (~Rule1(x) /\ Rule2(x)) => pg = LinkedKey(SubSeq(x, 1, Len(x) - 2))
                /\ (~Rule1(x) /\ ~Rule2(x) /\ Rule3(x, base)) => pg = LinkedKey(base)
                /\ (~Rule1(x) /\ ~Rule2(x) /\ ~Rule3(x, base)) =>
                       pg \in {DimPrefix \o base, x}

\* an identifier with a dimension suffix and the revision suffix, not in the
\* index itself, for which rule 2 and rule 3 name different retained groups:
\* it gets the group of rule 2
C3_Witness ==
    /\ pc = "done"
    /\ LET x    == working_df[1].ProdReference.s
           base == working_df[1].Base_Product
       IN  /\ DimensionStripped(x)
           /\ ~Rule1(x)
           /\ Rule2(x)
           /\ Rule3(x, base)
           /\ LinkedKey(base) # LinkedKey(SubSeq(x, 1, Len(x) - 2))
           /\ working_df[1].Product_Group = LinkedKey(SubSeq(x, 1, Len(x) - 2))

\* C4: an identifier that matches no retained linked group gets the key
\* Dim_<base> only if normalisation stripped a dimension segment, and gets
\* itself as key otherwise; so for every identifier whose final separated
\* segment is not numeric, or numeric of length 1 or of length 4 or more.
C4_DimensionOnlyWhenStripped ==
    Grouped =>
        \A k \in 1..Len(working_df) :
            LET x    == working_df[k].ProdReference.s
                base == working_df[k].Base_Product
                pg   == working_df[k].Product_Group
            IN  (~Rule1(x) /\ ~Rule2(x) /\ ~Rule3(x, base)) =>
                    /\ pg = DimPrefix \o base => DimensionStripped(x)
                    /\ ~DimensionStripped(x) => pg = x
                    /\ ( /\ contains(x, "_")
                         /\ \/ ~isdigit(FinalSegment(x))
                            \/ Len(FinalSegment(x)) = 1
                            \/ Len(FinalSegment(x)) >= 4 ) => pg = x

----------------------------------------------------------------------------
(* SpecLinked: the linked index built from all short linked files          *)

\* most rows of a linked file
MaxLinkedRows == 2

IdP == <<"P">>
IdQ == <<"Q">>

\* rows that contribute (one with a padded identifier and a text "1" as
\* order indicator) and rows that are passed over
LinkedRowKinds ==
    { LinkedRowOf(Str(IdP), Num(1)),
      LinkedRowOf(Str(IdP), Num(2)),
      LinkedRowOf(Str(<<"Q", " ">>), Str(<<"1">>)),
      LinkedRowOf(Str(IdQ), Num(2)),
      LinkedRowOf(NA, Num(1)),
      LinkedRowOf(Str(IdP), NA),
      LinkedRowOf(Str(IdQ), Str(<<"x">>)) }

AnyLinkedFile ==
    {MissingLinkedFile}
        \cup {LinkedFile(rows) : rows \in SeqsUpTo(LinkedRowKinds, MaxLinkedRows)}

LinkedLinkedFiles == << AnyLinkedFile, AnyLinkedFile >>

LinkedROFiles ==
    { ROFile(<< RORow(Str(Store100), Str(IdP), Str(SizeS), Num(1), Num(1), Num(0), Num(1)),
                RORow(Str(Store100), Str(IdQ), Str(SizeS), Num(1), Num(0), Num(1), Num(1)) >>) }

InitLinked ==
    InitWith({DefaultThreshold}, {DefaultUsaThreshold}, {DefaultCdaThreshold})

NextLinked == Run(LinkedLinkedFiles, LinkedROFiles)

SpecLinked == InitLinked /\ [][NextLinked]_vars

----------------------------------------------------------------------------
(* Properties of the linked index (specification SpecLinked)               *)

\* the group ids given to the rows of one source
GroupIdsOf(data) == {data[i].Group : i \in 1..Len(data)}

\* the distinct identifiers of a member list
MembersOf(products) == {products[i] : i \in 1..Len(products)}

\* the linked index is built
IndexBuilt == pc \notin {"open", "rows", "build"}

\* C6: group-id numbering continues across sources without collision: no row
\* of a later source gets a group id that a row of an earlier source got,
\* also when the later source's first contributing row has an order indicator
\* other than 1.
C6_NoCollisionAcrossSources ==
    \A a, b \in 1..Len(loaded) :
        a < b => GroupIdsOf(loaded[a]) \cap GroupIdsOf(loaded[b]) = {}

\* C7: the retained linked groups are exactly the group ids with at least two
\* associated identifiers; a group with one member identifier is not
\* retained, also when that identifier occurs in several rows of the group.
C7_RetainedIffTwoIdentifiers ==
    IndexBuilt =>
        DOMAIN linked_groups =
            {g \in DOMAIN group_to_products :
                Cardinality(MembersOf(group_to_products[g])) >= 2}

\* the ids recorded for one source never decrease and rise by at most one
\* from a row to the next
NonDecreasing(data) ==
    \A i \in 1..(Len(data) - 1) :
        data[i].Group <= data[i + 1].Group /\ data[i + 1].Group <= data[i].Group + 1

\* what one iteration of the row loop may do
RowStep ==
    (pc = "rows" /\ row_no < Len(linked_df)) =>
        LET row == linked_df[row_no + 1]
            one == float(row.order_in).ok /\ float(row.order_in).v = 1
        IN  IF \/ row.product_ref.k = "na"
               \/ row.order_in.k = "na"
               \/ ~float(row.order_in).ok
            THEN /\ current_group' = current_group
                 /\ linked_data_list' = linked_data_list
            ELSE /\ current_group' = (IF one THEN current_group + 1 ELSE current_group)
                 /\ Len(linked_data_list') = Len(linked_data_list) + 1
                 /\ SubSeq(linked_data_list', 1, Len(linked_data_list)) = linked_data_list
                 /\ linked_data_list'[Len(linked_data_list')].Group = current_group'
                 /\ NonDecreasing(linked_data_list')
                 /\ (/\ Len(linked_data_list) > 0
                     /\ linked_data_list'[Len(linked_data_list')].Group
                            # linked_data_list[Len(linked_data_list)].Group) => one

\* C8: while a source is processed row by row, the group counter is
\* incremented exactly on contributing rows whose order indicator equals 1,
\* before the row is recorded; a row with a missing identifier, a missing or
\* a non-numeric order indicator changes neither the counter nor the record;
\* so the recorded ids never decrease and two consecutive recorded rows
\* differ in id only when the second has order indicator 1.  (An action
\* property of the row loop.)
C8_CounterPerRow == [][RowStep]_vars

\* a source of two rows is processed: the first row was passed over for its
\* non-numeric order indicator, the second started a group
C8_Witness ==
    /\ pc = "rows"
    /\ row_no = 2
    /\ linked_df[1].order_in.k = "str"
    /\ ~float(linked_df[1].order_in).ok
    /\ Len(linked_data_list) = 1
    /\ linked_data_list[1].Group = StartGroup + 1
    /\ current_group = linked_data_list[1].Group

----------------------------------------------------------------------------
(* SpecDefects: runs over defective rows and defective files               *)

\* most lines of an allocation file in SpecDefects
MaxDefectRows == 2

\* pd.read_excel(ro_file) raises
UnreadableRO == [readable |-> FALSE, has_columns |-> FALSE, rows |-> << >>]

\* a sheet with fewer columns than df.columns[24]: the selection raises
NoColumnsRO == [readable |-> TRUE, has_columns |-> FALSE, rows |-> << >>]

\* a sheet with its header row and no allocation rows
EmptyRO == ROFile(<< >>)

Group_X == <<"G","r","o","u","p","_","X">>

\* the identifier cell of a line: a text, an empty cell, a number
DefectIdCells == {Str(A_30), Str(Group_X), NA, Num(7)}

\* the measurement cells (stock, quantity, 28-day sales, warehouse remainder)
\* of a line: all numeric, or with texts and empty cells among them
DefectMeasures ==
    { << Num(0), Num(1), Num(0), Num(1) >>,
      << Str(<<"x">>), Num(1), NA, Str(<<"x">>) >>,
      << Num(5), NA, Str(<<"x">>), Num(1) >> }

DefectRows ==
    { RORow(Str(Store100), id, Str(SizeS), m[1], m[2], m[3], m[4]) :
        id \in DefectIdCells, m \in DefectMeasures }

DefectROFiles ==
    {ROFile(rows) : rows \in SeqsUpTo(DefectRows, MaxDefectRows)}
        \cup {UnreadableRO, NoColumnsRO}

\* LinkedB_A30 has a row without identifier and a row with a text as order
\* indicator
DefectLinkedFiles == << {MissingLinkedFile, LinkedB_A30}, {MissingLinkedFile} >>

InitDefects ==
    InitWith({DefaultThreshold}, {DefaultUsaThreshold}, {DefaultCdaThreshold})

NextDefects == Run(DefectLinkedFiles, DefectROFiles)

SpecDefects == InitDefects /\ [][NextDefects]_vars

----------------------------------------------------------------------------
(* Properties of the failure handling (specification SpecDefects)          *)

\* the run ended in the outer except
Failed == pc = "error"

\* the RO file was read and its columns were selected
ROLoaded == pc \in {"group", "detect", "allout", "report", "done"}

\* C11: row-level defects are never fatal: when the allocation file was read
\* and has at least one line, the run does not end in the error outcome,
\* whatever the cells of its lines and of the linked rows hold (an empty
\* identifier cell, a text as order indicator, a text or an empty cell as
\* stock, quantity, sales or warehouse remainder).
C11_RowDefectsNeverFatal == Failed => working_df = << >>

\* the parts of the report: summary counts, misallocation result or
\* all-clear message, all-out result or efficient-allocation message
ReportParts == {"metrics", "red_flags", "all_clear", "all_out", "efficient"}

\* the positions of output that hold one of the given items
Shown(items) == {i \in 1..Len(output) : output[i] \in items}

\* C12: an allocation file that is unreadable or has no lines ends the run
\* in the error outcome (the run does not go on with an empty table); and a
\* run that ends in the error outcome has shown exactly one error and no
\* part of the report.
C12_FatalWithoutPartialReport ==
    /\ ROLoaded => working_df # << >>
    /\ Failed => /\ Cardinality(Shown({"error"})) = 1
                 /\ Shown(ReportParts) = {}

----------------------------------------------------------------------------
(* Properties of the retained groups' members (specification SpecLinked)   *)

\* C13: every identifier listed as a member of a retained linked group
\* resolves, by get_product_group, to the Linked key of a retained group that
\* lists it; also when the identifier occurs in several rows of the linked
\* sources under different group ids.
C13_MembersResolveToTheirGroup ==
    IndexBuilt =>
        \A g \in DOMAIN linked_groups :
            \A x \in MembersOf(linked_groups[g]) :
                \E h \in DOMAIN linked_groups :
                    /\ x \in MembersOf(linked_groups[h])
                    /\ get_product_group(x) = GroupPrefix \o NatToStr(h)

----------------------------------------------------------------------------
(* SpecKeys: allocation files whose identifiers and sizes resemble keys    *)

\* most lines of an allocation file in SpecKeys
MaxKeyRows == 2

Dim_A == <<"D","i","m","_","A">>
Group_1 == <<"G","r","o","u","p","_","1">>
Size30_S == <<"3","0","_","S">>

\* (identifier, size) of a line: among them an identifier that reads like a
\* dimension key, one that reads like a linked key, and a size with a "_"
KeyPairs ==
    { <<A_30, SizeS>>, <<A_32, SizeS>>, <<IdB, SizeS>>, <<Dim_A, SizeS>>,
      <<Group_1, SizeS>>, <<IdA, Size30_S>> }

KeyRows ==
    { RORow(Str(Store100), Str(p[1]), Str(p[2]), Num(stock), Num(qty), Num(0), Num(1)) :
        p \in KeyPairs, stock \in {0, 2}, qty \in {0, 1} }

KeyROFiles == {ROFile(rows) : rows \in SeqsUpTo(KeyRows, MaxKeyRows) \ {<< >>}}

KeyLinkedFiles == << {MissingLinkedFile, LinkedB_A30}, {MissingLinkedFile} >>

InitKeys ==
    InitWith({DefaultThreshold}, {DefaultUsaThreshold}, {DefaultCdaThreshold})

NextKeys == Run(KeyLinkedFiles, KeyROFiles)

SpecKeys == InitKeys /\ [][NextKeys]_vars

----------------------------------------------------------------------------
(* Properties of the keys (specification SpecKeys)                         *)

LinkedKeyValue(id) == [kind |-> "Linked", id |-> id, name |-> << >>]
DimensionKeyValue(base) == [kind |-> "Dimension", id |-> 0, name |-> base]
SelfKeyValue(x) == [kind |-> "Self", id |-> 0, name |-> x]

\* the GroupKey of identifier x as a value Linked(id) / Dimension(base) /
\* Self(identifier): the branch of get_product_group that returns for x,
\* with what it puts into the string
ResolvedKey(x) ==
    LET base == get_base_product(x)
    IN  IF Rule1(x) THEN LinkedKeyValue(product_to_group[x])
        ELSE IF Rule2(x)
             THEN LinkedKeyValue(product_to_group[SubSeq(x, 1, Len(x) - 2)])
        ELSE IF base # x /\ Rule3(x, base)
             THEN LinkedKeyValue(product_to_group[base])
        ELSE IF has_dimension(x) THEN DimensionKeyValue(base)
        ELSE SelfKeyValue(x)

\* C14: the string encoding of the GroupKeys is injective: two lines have the
\* same Product_Group only if their GroupKeys are equal as values; a line
\* whose key is a Self key has no Product_Group that starts with "Group_" or
\* "Dim_", and a flagged or unflagged allocation is tagged Is_Linked only
\* with a Linked key and Is_Dimension_Grouped only with a Dimension key.
C14_KeyEncodingInjective ==
    /\ Grouped =>
          \A i, j \in 1..Len(working_df) :
              working_df[i].Product_Group = working_df[j].Product_Group
                  => ResolvedKey(working_df[i].ProdReference.s)
                         = ResolvedKey(working_df[j].ProdReference.s)
    /\ Detected =>
          \A k \in 1..Len(allocations) :
              LET key == ResolvedKey(allocations[k].ProdReference.s)
              IN  /\ allocations[k].Is_Linked => key.kind = "Linked"
                  /\ allocations[k].Is_Dimension_Grouped => key.kind = "Dimension"

\* C15: the warehouse de-duplication treats two lines as one SKU only if
\* they have the same identifier and the same size: lines with different
\* (identifier, size) have different SKU keys, and the first line of every
\* (identifier, size) is among the de-duplicated rows that are summed.
C15_SKUOnlyForSamePair ==
    /\ Grouped =>
          \A i, j \in 1..Len(working_df) :
              working_df[i].SKU = working_df[j].SKU
                  => /\ working_df[i].ProdReference = working_df[j].ProdReference
                     /\ working_df[i].Size = working_df[j].Size
    /\ AllOutDone =>
          \A i \in 1..Len(working_df) :
              FirstOfSKU(i) => \E k \in 1..Len(unique_skus) : unique_skus[k].line = i

====
